---------------------------- MODULE Spec2Model ----------------------------
(***************************************************************************)
(* A model of the LightOdometer instance controller (core/odometer.ts):    *)
(* one instance bound to one rendering surface, the callbacks it schedules *)
(* (requestAnimationFrame ticks of the count animation, zero-delay timers) *)
(* and the transition-end events of the surface.                           *)
(*                                                                         *)
(* Numbers are fixed-point: every value is an integer count of 1/Unit, so  *)
(* 1.5 is 150.  The clock is in milliseconds.                              *)
(***************************************************************************)
EXTENDS Integers, Sequences, FiniteSets, TLC

VARIABLES
    browser,            \* isBrowser(): window and document exist
    globals,            \* LightOdometer.options, the process-wide default options
    bound,              \* el.odometer: the surface has an instance bound to it
    el,                 \* this.el: the surface the instance is bound to (0: none)
    value,              \* this.value: the logical (current) value
    isAnimating,        \* this._isAnimating
    destroyed,          \* this.destroyed
    transitionEndBound, \* this.transitionEndBound (and the listener this._onTransitionEnd attached)
    renderEnqueued,     \* the renderEnqueued flag of the listener bound last
    bindGen,            \* how many listeners bindTransitionEnd has created
    options,            \* this.options
    format,             \* this.format
    MAX_VALUES,         \* this.MAX_VALUES
    countRafId,         \* this._countRafId: the plan whose frame request was made last (0: none)
    plan,               \* the animation plan computed last
    nextPlan,           \* number of plans computed so far, plus one
    rafQueue,           \* frame callbacks requested for the next frame
    runQueue,           \* frame callbacks of the frame being run, not yet called
    timers,             \* zero-delay timers, in the order they were set
    onceArmed,          \* a one-shot odometerdone listener of animateOnceAndDisconnect is attached
    fallbacks,          \* the due times of the fallback timers of animateOnceAndDisconnect
    hasInside,          \* this.inside exists (renderInside has run)
    inside,             \* the children of this.inside, left to right
    display,            \* what the surface shows
    classes,            \* the animation classes on the surface element
    emitted,            \* the notifications dispatched during the last step
    thrown,             \* the error the last step raised ("": none)
    ret,                \* what the last update call returned (-1: no update has returned)
    started,            \* number of odometerstart notifications so far
    done,               \* number of odometerdone notifications so far
    clock,              \* now()
    frames,             \* number of frames so far
    calls,              \* number of API calls so far
    last,               \* the last step: what ran, and its inputs
    lastRequested,      \* the normalized argument of the update call that returned last
    onlyUpdates,        \* no setOptions, construct or destroy call has been made
    reentered,          \* a listener has called update while a notification was dispatched
    callsAfterDestroy   \* an API call has been made since the instance was destroyed

world == <<browser, globals, bound, el, value, isAnimating, destroyed, transitionEndBound,
           renderEnqueued, bindGen, options, format, MAX_VALUES, countRafId,
           plan, nextPlan, rafQueue, runQueue, timers, onceArmed, fallbacks,
           hasInside, inside, display, classes, emitted, thrown, ret, started,
           done, clock>>

vars == <<world, frames, calls, last, lastRequested, onlyUpdates, reentered,
          callsAfterDestroy>>

---------------------------------------------------------------------------
(* Bounds of the model *)

MaxCalls == 3
MaxFrames == 3
MaxRaw == 3

(* Raw inputs of update: 0, 0.5, 1, 1.5, ... *)
Unit == 100
RawValues == {(Unit \div 2) * k : k \in 0..MaxRaw}

OptionValues == {0, Unit \div 2}
Animations == {"slide", "count"}
Durations == {1000, 2000}
Formats == {"d", "d.d"}
FrameSteps == {1000}

(* undefined, where a number is expected *)
Undefined == 0 - 2147483647

(* shared/settings *)
DURATION == 2000
FRAMERATE == 30
COUNT_FRAMERATE == 20
FRAMES_PER_VALUE == 2
DIGIT_SPEEDBOOST == Unit \div 2
DIGIT_FORMAT == "(,ddd).dd"

(* What the odometerstart listener of the page does: nothing, or one call  *)
(* of update.                                                              *)
Listeners == {<<>>, <<Unit>>}

---------------------------------------------------------------------------
(* utilities.ts *)

Pow10(n) == 10 ^ n

MathRound(val) == ((val + Unit \div 2) \div Unit) * Unit

round(val, precision) ==
    IF precision = 0
    THEN MathRound(val)
    ELSE LET q == Unit \div Pow10(precision)
         IN  ((val + q \div 2) \div q) * q

(* truncate(a / b) for b > 0: the fractional part is removed *)
truncate(a, b) == IF a < 0 THEN 0 - ((0 - a) \div b) ELSE a \div b

Abs(a) == IF a < 0 THEN 0 - a ELSE a

---------------------------------------------------------------------------
(* The instance and its surroundings as one record, so that the methods    *)
(* are functions from state to state and can call each other.              *)

World ==
    [browser |-> browser, globals |-> globals, bound |-> bound, el |-> el, value |-> value, isAnimating |-> isAnimating,
     destroyed |-> destroyed, transitionEndBound |-> transitionEndBound,
     renderEnqueued |-> renderEnqueued, bindGen |-> bindGen,
     options |-> options, format |-> format, MAX_VALUES |-> MAX_VALUES,
     countRafId |-> countRafId, plan |-> plan, nextPlan |-> nextPlan,
     rafQueue |-> rafQueue, runQueue |-> runQueue, timers |-> timers,
     onceArmed |-> onceArmed, fallbacks |-> fallbacks,
     hasInside |-> hasInside, inside |-> inside,
     display |-> display, classes |-> classes, emitted |-> emitted,
     thrown |-> thrown, ret |-> ret,
     started |-> started, done |-> done, clock |-> clock]

Commit(w) ==
    /\ browser' = w.browser
    /\ globals' = w.globals
    /\ bound' = w.bound
    /\ el' = w.el
    /\ value' = w.value
    /\ isAnimating' = w.isAnimating
    /\ destroyed' = w.destroyed
    /\ transitionEndBound' = w.transitionEndBound
    /\ renderEnqueued' = w.renderEnqueued
    /\ bindGen' = w.bindGen
    /\ options' = w.options
    /\ format' = w.format
    /\ MAX_VALUES' = w.MAX_VALUES
    /\ countRafId' = w.countRafId
    /\ plan' = w.plan
    /\ nextPlan' = w.nextPlan
    /\ rafQueue' = w.rafQueue
    /\ runQueue' = w.runQueue
    /\ timers' = w.timers
    /\ onceArmed' = w.onceArmed
    /\ fallbacks' = w.fallbacks
    /\ hasInside' = w.hasInside
    /\ inside' = w.inside
    /\ display' = w.display
    /\ classes' = w.classes
    /\ emitted' = w.emitted
    /\ thrown' = w.thrown
    /\ ret' = w.ret
    /\ started' = w.started
    /\ done' = w.done
    /\ clock' = w.clock

(* The state a step starts from: nothing dispatched or raised yet. *)
Entry == [World EXCEPT !.emitted = <<>>, !.thrown = ""]

(* throw new Error(...): the rest of the call is skipped *)
throw(w, error) == [w EXCEPT !.thrown = error]

Ok(w) == w.thrown = ""

Has(o, k) == k \in DOMAIN o

(* o[k] ?? d *)
Get(o, k, d) == IF Has(o, k) /\ o[k] # Undefined THEN o[k] ELSE d

(* { ...a, ...b } *)
Merge(a, b) ==
    [k \in DOMAIN a \cup DOMAIN b |-> IF k \in DOMAIN b THEN b[k] ELSE a[k]]

(* delete o[k] *)
Delete(o, k) == [j \in DOMAIN o \ {k} |-> o[j]]

---------------------------------------------------------------------------
(* Format and value normalisation *)

(* FORMAT_PARSER.exec(format) on the format strings the model uses:        *)
(* whether the string matches and, if so, the repeating pattern (one       *)
(* character per element), the radix symbol ("": none) and the number of   *)
(* fractional digit markers.                                               *)
parseFormat(f) ==
    CASE f = "d" ->
           [ok |-> TRUE, repeating |-> <<"d">>, radix |-> "", precision |-> 0]
      [] f = "d.d" ->
           [ok |-> TRUE, repeating |-> <<"d">>, radix |-> ".", precision |-> 1]
      [] f = "d.dd" ->
           [ok |-> TRUE, repeating |-> <<"d">>, radix |-> ".", precision |-> 2]
      [] f = "(,ddd)" ->
           [ok |-> TRUE, repeating |-> <<",", "d", "d", "d">>, radix |-> "",
            precision |-> 0]
      [] f = "(,ddd).dd" ->
           [ok |-> TRUE, repeating |-> <<",", "d", "d", "d">>, radix |-> ".",
            precision |-> 2]
      [] f = "(.ddd)" ->
           [ok |-> TRUE, repeating |-> <<".", "d", "d", "d">>, radix |-> "",
            precision |-> 0]
      [] f = "(,)" ->
           [ok |-> TRUE, repeating |-> <<",">>, radix |-> "", precision |-> 0]
      [] f = "()" ->
           [ok |-> TRUE, repeating |-> <<>>, radix |-> "", precision |-> 0]
      [] OTHER ->
           [ok |-> FALSE, repeating |-> <<>>, radix |-> "", precision |-> 0]

(* The format string resetFormat parses. *)
formatString(w) ==
    LET f == IF Has(w.options, "format") THEN w.options.format ELSE DIGIT_FORMAT
    IN  IF f = "" THEN "d" ELSE f

resetFormat(w) ==
    LET parsed == parseFormat(formatString(w))
    IN  IF ~parsed.ok
        THEN throw(w, "InvalidFormat")
        ELSE [w EXCEPT !.format = [repeating |-> parsed.repeating,
                                   radix |-> parsed.radix,
                                   precision |-> parsed.precision]]

(* cleanValue of a number: round(val, this.format.precision) *)
cleanValue(w, val) == round(val, w.format.precision)

(* The derived timing of the constructor and of setOptions:                *)
(* (duration / (1000 / framerate) / FRAMES_PER_VALUE) | 0, the quotient    *)
(* taken exactly.  The dividend is kept as two 16-bit limbs, hi * 2^16 +   *)
(* lo, since it can exceed 32 bits.                                        *)
Limb == 65536

timingQuotient(duration, framerate) ==
    LET divisor == 1000 * FRAMES_PER_VALUE
        lowProduct == (duration % Limb) * framerate
        top == (duration \div Limb) * framerate + lowProduct \div Limb
        low == lowProduct % Limb
    IN  [hi |-> top \div divisor,
         lo |-> ((top % divisor) * Limb + low) \div divisor]

(* x | 0: ToInt32 of a non-negative integer given as two limbs *)
ToInt32(x) ==
    LET h == x.hi % Limb
    IN  (IF h >= Limb \div 2 THEN h - Limb ELSE h) * Limb + x.lo

(* The pairs (duration, framerate) of the model whose quotient, computed   *)
(* in IEEE-754 doubles, falls just below the whole number the exact        *)
(* quotient is: 1000 / 30 is rounded up to 33.333333333333336, and         *)
(* 2000 / 33.333333333333336 / 2 is 29.999999999999996.  For every other   *)
(* pair the model uses the double and the exact quotient have the same     *)
(* integer part.                                                           *)
QuotientBelow == {<<1000, 30>>, <<2000, 30>>, <<2000000000, 30>>}

recomputeTiming(w) ==
    LET w1 == [w EXCEPT !.options =
                   IF Get(@, "duration", Undefined) = Undefined
                   THEN Merge(@, [duration |-> DURATION]) ELSE @]
        framerate == Get(w1.options, "framerate", FRAMERATE)
        below == <<w1.options.duration, framerate>> \in QuotientBelow
    IN  [w1 EXCEPT !.MAX_VALUES =
                       ToInt32(timingQuotient(w1.options.duration, framerate))
                           - (IF below THEN 1 ELSE 0)]

---------------------------------------------------------------------------
(* Scheduling *)

(* setTimeout(cb, 0) *)
setTimeout0(w, cb) == [w EXCEPT !.timers = Append(@, cb)]

(* safeRaf(tick): the request is served in the next frame; _countRafId     *)
(* names it.                                                               *)
safeRaf(w, tick) ==
    [w EXCEPT !.rafQueue = Append(@, tick), !.countRafId = tick.id]

(* safeCancelRaf(id): the request, if still pending, is dropped. *)
safeCancelRaf(w, id) ==
    [w EXCEPT !.rafQueue = SelectSeq(@, LAMBDA t : t.id # id),
              !.runQueue = SelectSeq(@, LAMBDA t : t.id # id)]

---------------------------------------------------------------------------
(* disconnect *)

(* A variant of disconnect: no early return when already destroyed. *)
disconnectUnguarded(w) ==
    [safeCancelRaf(w, w.countRafId) EXCEPT !.transitionEndBound = FALSE,
                                           !.destroyed = TRUE]

disconnect(w) ==
    IF w.destroyed
    THEN w
    ELSE [safeCancelRaf(w, w.countRafId) EXCEPT !.transitionEndBound = FALSE,
                                                !.destroyed = TRUE]

---------------------------------------------------------------------------
(* Notifications *)

(* A variant of startDetail: oldValue read after the value was assigned. *)
startDetailLate(w, newValue) ==
    [name |-> "odometerstart", value |-> newValue, oldValue |-> newValue]

startDetail(w, newValue) ==
    [name |-> "odometerstart", value |-> newValue, oldValue |-> w.value]

doneDetail(w) == [name |-> "odometerdone", value |-> w.value]

(* The one-shot odometerdone listener of animateOnceAndDisconnect: it is   *)
(* removed and the instance is disconnected.                               *)
once(w) == disconnect([w EXCEPT !.onceArmed = FALSE])

(* dispatchEvent: the listeners run before trigger returns. *)
trigger(w, detail) ==
    LET w1 == [w EXCEPT !.emitted = Append(@, detail),
                        !.started = IF detail.name = "odometerstart" THEN @ + 1 ELSE @,
                        !.done = IF detail.name = "odometerdone" THEN @ + 1 ELSE @]
    IN  IF detail.name = "odometerdone" /\ w1.onceArmed THEN once(w1) ELSE w1

---------------------------------------------------------------------------
(* The projection layer: the children of this.inside are tokens, a digit   *)
(* (with the frames of its ribbon when it slides) or a spacer.             *)

DigitChars == <<"0", "1", "2", "3", "4", "5", "6", "7", "8", "9">>

DigitToken(chr, ribbon) == [kind |-> "digit", chr |-> chr, frames |-> ribbon]

(* kind: "mark" (of the format), "radix" or "negation" *)
SpacerToken(chr, kind) == [kind |-> kind, chr |-> chr, frames |-> <<>>]

(* value.toString() of a number with at most two fractional digits *)
RECURSIVE natString(_)
natString(n) ==
    IF n < 10
    THEN <<DigitChars[n + 1]>>
    ELSE natString(n \div 10) \o <<DigitChars[(n % 10) + 1]>>

toString(v) ==
    LET whole == Abs(v) \div Unit
        part == Abs(v) % Unit
        fraction == IF part = 0 THEN <<>>
                    ELSE IF part % 10 = 0 THEN <<".", DigitChars[(part \div 10) + 1]>>
                    ELSE <<".", DigitChars[(part \div 10) + 1],
                           DigitChars[(part % 10) + 1]>>
    IN  (IF v < 0 THEN <<"-">> ELSE <<>>) \o natString(whole) \o fraction

(* A variant of preservePrecision: no trailing zeros are added. *)
preservePrecisionUnpadded(str, precision) == str

preservePrecision(str, precision) ==
    LET dots == {i \in DOMAIN str : str[i] = "."}
        fractionLength == IF dots = {} THEN 0
                          ELSE Len(str) - (CHOOSE i \in dots : TRUE)
        missing == IF precision > fractionLength
                   THEN precision - fractionLength ELSE 0
    IN  IF precision = 0
        THEN str
        ELSE str \o (IF dots = {} THEN <<".">> ELSE <<>>)
                 \o [i \in 1..missing |-> "0"]

(* insertDigit(node) with no reference node: it becomes the first child *)
insertDigit(w, token) == [w EXCEPT !.inside = <<token>> \o @]

addSpacer(w, chr, kind) == insertDigit(w, SpacerToken(chr, kind))

(* The loop of addDigit: the repeating pattern is consumed from its right  *)
(* end up to the next digit marker, every other character becoming a       *)
(* spacer; an exhausted pattern is parsed again, once.                     *)
RECURSIVE placeMarks(_, _)

(* One turn of the loop, the pattern having been parsed again if it was    *)
(* exhausted.                                                              *)
nextMark(w, resetted) ==
    LET repeating == w.format.repeating
        chr == repeating[Len(repeating)]
        w1 == [w EXCEPT !.format.repeating = SubSeq(repeating, 1, Len(repeating) - 1)]
    IN  IF ~Ok(w) THEN w
        ELSE IF repeating = <<>> THEN throw(addSpacer(w, "", "mark"), "BadFormat")
        ELSE IF chr = "d" THEN w1
        ELSE placeMarks(addSpacer(w1, chr, "mark"), resetted)

(* A variant of placeMarks: an exhausted pattern is not parsed again. *)
placeMarksOnce(w, resetted) ==
    IF w.format.repeating # <<>> THEN nextMark(w, resetted)
    ELSE throw(w, "BadFormat")

placeMarks(w, resetted) ==
    IF w.format.repeating # <<>> THEN nextMark(w, resetted)
    ELSE IF resetted THEN throw(w, "BadFormat")
    ELSE nextMark(resetFormat(w), TRUE)

(* The end of addDigit: the digit is rendered, pushed and inserted. *)
pushDigit(w, chr) == IF Ok(w) THEN insertDigit(w, DigitToken(chr, <<>>)) ELSE w

(* A variant of addDigit: the repeating pattern is not consulted. *)
addDigitUngrouped(w, chr, repeating) ==
    IF chr = "-" THEN addSpacer(w, "-", "negation")
    ELSE IF chr = "."
    THEN addSpacer(w, IF w.format.radix = "" THEN "." ELSE w.format.radix, "radix")
    ELSE pushDigit(w, chr)

addDigit(w, chr, repeating) ==
    IF chr = "-" THEN addSpacer(w, "-", "negation")
    ELSE IF chr = "."
    THEN addSpacer(w, IF w.format.radix = "" THEN "." ELSE w.format.radix, "radix")
    ELSE pushDigit(IF repeating THEN placeMarks(w, FALSE) ELSE w, chr)

(* formatDigits without a format function: the characters of the string,   *)
(* last to first.                                                          *)
RECURSIVE formatFrom(_, _, _, _)
formatFrom(w, str, i, wholePart) ==
    IF i = 0 \/ ~Ok(w)
    THEN w
    ELSE formatFrom(addDigit(w, str[i], wholePart \/ str[i] = "."), str, i - 1,
                    wholePart \/ str[i] = ".")

formatDigits(w, v) ==
    formatFrom(w, preservePrecision(toString(v), w.format.precision),
               Len(preservePrecision(toString(v), w.format.precision)),
               w.format.precision = 0)

---------------------------------------------------------------------------
(* Rendering *)

AnimClasses ==
    {"odometer-animating-up", "odometer-animating-down", "odometer-animating"}

(* render(value): the static projection of a value; the format is parsed   *)
(* again, the content is emptied and every odometer class is stripped from *)
(* the element.                                                            *)
renderValue(w, v) ==
    LET w1 == resetFormat(w)
        w2 == [w1 EXCEPT !.inside = <<>>, !.classes = {},
                         !.display = [kind |-> "static", old |-> v, value |-> v]]
    IN  IF ~w.browser THEN w
        ELSE IF ~Ok(w1) THEN w1
        ELSE IF ~w1.hasInside THEN throw(w1, "TypeError")
        ELSE formatDigits(w2, v)

render(w) == renderValue(w, w.value)

(* renderInside *)
renderInside(w) ==
    IF ~w.browser THEN w ELSE [w EXCEPT !.hasInside = TRUE, !.inside = <<>>]

---------------------------------------------------------------------------
(* bindTransitionEnd: one listener, with its own renderEnqueued flag *)
bindTransitionEnd(w) ==
    IF w.transitionEndBound
    THEN w
    ELSE [w EXCEPT !.transitionEndBound = TRUE,
                   !.bindGen = @ + 1,
                   !.renderEnqueued = FALSE]

(* The listener: the first event of a batch queues the deferred render. *)
onTransitionEnd(w) ==
    IF w.renderEnqueued
    THEN w
    ELSE setTimeout0([w EXCEPT !.renderEnqueued = TRUE],
                     [kind |-> "render", gen |-> w.bindGen, plan |-> w.plan.id])

(* The deferred render queued by the listener of generation gen. *)
deferredRender(w, gen) ==
    LET w1 == render(w)
        w2 == [w1 EXCEPT !.renderEnqueued = IF gen = w.bindGen THEN FALSE ELSE @,
                         !.isAnimating = FALSE]
    IN  IF Ok(w1) THEN trigger(w2, doneDetail(w2)) ELSE w1

(* The deferred class toggle queued by update. *)
deferredClass(w) ==
    [w EXCEPT !.classes = @ \cup {"odometer-animating"}]

---------------------------------------------------------------------------
(* The planners *)

newPlan(w, mode, newValue) ==
    [id |-> w.nextPlan, mode |-> mode, old |-> w.value, new |-> newValue,
     precision |-> w.format.precision, columns |-> <<>>]

animateCount(w, newValue) ==
    LET diff == newValue - w.value
        p == newPlan(w, "count", newValue)
        tick == [id |-> p.id, newValue |-> newValue, diff |-> diff,
                 start |-> w.clock, last |-> w.clock, cur |-> w.value]
    IN  IF ~w.browser \/ diff = 0
        THEN w
        ELSE safeRaf([w EXCEPT !.plan = p, !.nextPlan = @ + 1], tick)

(* value * Math.pow(10, fractionalCount) in IEEE-754 double arithmetic.    *)
(* With two fractional digits the product of some values is not the        *)
(* integer but the double next to it: 0.29 * 100 is 28.999999999999996 and *)
(* 0.07 * 100 is 7.000000000000001.  These are the values below 3 (in      *)
(* hundredths) whose product is below, or above, the integer; the product  *)
(* of every other value the model uses is exact.                           *)
ProductBelow ==
    {29, 57, 58, 113, 114, 115, 116, 201, 203, 205, 207, 226, 228, 230, 232,
     251, 253, 255}

ProductAbove ==
    {7, 14, 28, 55, 56, 109, 110, 111, 112, 218, 220, 222, 224, 243, 245, 247,
     249}

(* The product in half units of 1/scale, scale being Unit / 10^count: an   *)
(* odd number stands for the double next to an integer.                    *)
scaleUp(v, fractionalCount) ==
    LET error == IF fractionalCount # 2 THEN 0
                 ELSE IF Abs(v) \in ProductBelow THEN 0 - 1
                 ELSE IF Abs(v) \in ProductAbove THEN 1
                 ELSE 0
    IN  IF v < 0 THEN 0 - (2 * Abs(v) + error) ELSE 2 * v + error

(* getDigitCount: ceil(log10(max + 1)), the least n with 10^n >= max + 1;  *)
(* x is max + 1 and y is 1, both in units of 1/scale.                      *)
RECURSIVE digitsUpTo(_, _)
digitsUpTo(x, y) == IF y >= x THEN 0 ELSE 1 + digitsUpTo(x, y * 10)

getDigitCount(a, b, scale) ==
    digitsUpTo((IF Abs(a) > Abs(b) THEN Abs(a) ELSE Abs(b)) + scale, scale)

(* A variant of createRange: the end is left out. *)
createRangeExclusive(start, end) ==
    [i \in 1..Abs(end - start) |->
        IF start < end THEN start + (i - 1) ELSE start - (i - 1)]

(* createRange(start, end, true) *)
createRange(start, end) ==
    [i \in 1..(Abs(end - start) + 1) |->
        IF start < end THEN start + (i - 1) ELSE start - (i - 1)]

(* The subsampled frames of a column, for MAX_VALUES >= 0: cur starts at   *)
(* start and grows by dist / denominator while it has not reached end,     *)
(* Math.round(cur) being a frame each time; end is appended unless it is   *)
(* the last frame.  denominator is MAX_VALUES * (1 + boosted *             *)
(* DIGIT_SPEEDBOOST); a zero denominator makes the increment infinite.     *)
(* The sums are taken exactly.                                             *)
subsample(start, end, max, boosted) ==
    LET dist == end - start
        den == max * (Unit + boosted * DIGIT_SPEEDBOOST)
        steps == (den + Unit - 1) \div Unit
        whole == dist \div den
        rest == dist % den
        walked == [k \in 1..steps |->
                      start + (k - 1) * Unit * whole
                            + (2 * (k - 1) * Unit * rest + den) \div (2 * den)]
    IN  IF dist = 0 THEN <<end>>
        ELSE IF max = 0 THEN <<start, end>>
        ELSE IF walked[steps] # end THEN Append(walked, end)
        ELSE walked

(* The frames of column i and of the columns after it, most significant    *)
(* first; boosted counts the columns subsampled so far.                    *)
RECURSIVE slideColumns(_, _, _, _, _, _, _)
slideColumns(old, new, scale, digitCount, i, boosted, max) ==
    LET weight == scale * Pow10(digitCount - i - 1)
        start == truncate(old, weight)
        end == truncate(new, weight)
        sampled == Abs(end - start) > max
        frames0 == IF sampled THEN subsample(start, end, max, boosted)
                   ELSE createRange(start, end)
        column == [j \in DOMAIN frames0 |-> Abs(frames0[j]) % 10]
    IN  IF i = digitCount
        THEN <<>>
        ELSE <<column>> \o slideColumns(old, new, scale, digitCount, i + 1,
                                        IF sampled THEN boosted + 1 ELSE boosted, max)

Reverse(q) == [i \in DOMAIN q |-> q[Len(q) + 1 - i]]

(* resetDigits *)
resetDigits(w) ==
    IF ~w.hasInside
    THEN throw(w, "TypeError")
    ELSE resetFormat([w EXCEPT !.inside = <<>>])

(* The frames of a column become the ribbon of the digit added last. *)
setRibbon(w, ribbon) ==
    IF Ok(w) THEN [w EXCEPT !.inside[1].frames = ribbon] ELSE w

(* The loop that builds the ribbons, from the least significant column:    *)
(* columns are the frame lists, least significant first.                   *)
RECURSIVE addRibbons(_, _, _, _, _)
addRibbons(w, columns, i, fractionalCount, down) ==
    IF i > Len(columns) \/ ~Ok(w)
    THEN w
    ELSE addRibbons(setRibbon(addDigit(w, " ", i - 1 >= fractionalCount),
                              IF down THEN Reverse(columns[i]) ELSE columns[i]),
                    columns, i + 1, fractionalCount, down)

(* if (start < 0) this.addDigit("-") *)
addSign(w, negative) ==
    IF Ok(w) /\ negative THEN addDigit(w, "-", TRUE) ELSE w

(* addSpacer(radix, this.digits[fractionalCount - 1]) when there are       *)
(* fractional digits: the radix mark goes before the digit of that index,  *)
(* counted from the least significant one, or becomes the first child when *)
(* there is no such digit.                                                 *)
insertRadix(w, fractionalCount) ==
    LET digitAt == {i \in DOMAIN w.inside : w.inside[i].kind = "digit"}
        before == {i \in digitAt :
                      Cardinality({j \in digitAt : j >= i}) = fractionalCount}
        at == IF before = {} THEN 1 ELSE CHOOSE i \in before : TRUE
        mark == SpacerToken(IF w.format.radix = "" THEN "." ELSE w.format.radix,
                            "radix")
    IN  IF ~Ok(w) \/ fractionalCount = 0 THEN w
        ELSE [w EXCEPT !.inside = SubSeq(@, 1, at - 1) \o <<mark>>
                                      \o SubSeq(@, at, Len(@))]

(* The while loop of a subsampled column never ends when MAX_VALUES is     *)
(* negative and the column moves: the increment points away from end.      *)
neverEnds(old, new, scale, digitCount, max) ==
    /\ max < 0
    /\ \E i \in 0..(digitCount - 1) :
          truncate(old, scale * Pow10(digitCount - i - 1))
              # truncate(new, scale * Pow10(digitCount - i - 1))

(* The ribbons built, the surface shows the plan p. *)
showPlan(w, p) ==
    IF Ok(w)
    THEN [w EXCEPT !.plan = p, !.nextPlan = @ + 1,
                   !.display = [kind |-> "slide", old |-> p.old, value |-> p.new]]
    ELSE w

animateSlide(w, newValue) ==
    LET fractionalCount == w.format.precision
        scale == 2 * (Unit \div Pow10(fractionalCount))
        oldValue == scaleUp(w.value, fractionalCount)
        scaled == scaleUp(newValue, fractionalCount)
        diff == scaled - oldValue
        digitCount == getDigitCount(oldValue, scaled, scale)
        digits == slideColumns(oldValue, scaled, scale, digitCount, 0, 0,
                               w.MAX_VALUES)
    IN  IF ~w.browser \/ diff = 0 THEN w
        ELSE IF neverEnds(oldValue, scaled, scale, digitCount, w.MAX_VALUES)
        THEN throw(bindTransitionEnd(w), "RangeError")
        ELSE showPlan(
                 insertRadix(
                     addSign(
                         addRibbons(resetDigits(bindTransitionEnd(w)),
                                    Reverse(digits), 1, fractionalCount, diff < 0),
                         truncate(oldValue, scale) < 0),
                     fractionalCount),
                 [newPlan(w, "slide", newValue) EXCEPT !.columns = digits])

animate(w, newValue) ==
    IF Has(w.options, "animation") /\ w.options.animation = "count"
    THEN animateCount(w, newValue)
    ELSE animateSlide(w, newValue)

(* One call of tick, the frame callback of a count plan. *)
countMsPerFrame(w) == 1000 \div Get(w.options, "countFramerate", COUNT_FRAMERATE)

(* A variant of tickCall: the tick that ends the plan requests another     *)
(* frame.                                                                  *)
tickCallRepeats(w, t) ==
    LET delta == w.clock - t.last
        dist == (t.diff * delta) \div w.options.duration
        t1 == [t EXCEPT !.last = w.clock, !.cur = @ + dist]
        w1 == render([w EXCEPT !.value = t.newValue])
        w2 == [w1 EXCEPT !.isAnimating = FALSE]
        w3 == renderValue(w, MathRound(t1.cur))
    IN  IF w.clock - t.start > w.options.duration
        THEN IF Ok(w1) THEN safeRaf(trigger(w2, doneDetail(w2)), t) ELSE w1
        ELSE IF delta > countMsPerFrame(w)
        THEN IF Ok(w3) THEN safeRaf(w3, t1) ELSE w3
        ELSE safeRaf(w, t)

tickCall(w, t) ==
    LET delta == w.clock - t.last
        dist == (t.diff * delta) \div w.options.duration
        t1 == [t EXCEPT !.last = w.clock, !.cur = @ + dist]
        w1 == render([w EXCEPT !.value = t.newValue])
        w2 == [w1 EXCEPT !.isAnimating = FALSE]
        w3 == renderValue(w, MathRound(t1.cur))
    IN  IF w.clock - t.start > w.options.duration
        THEN IF Ok(w1) THEN trigger(w2, doneDetail(w2)) ELSE w1
        ELSE IF delta > countMsPerFrame(w)
        THEN IF Ok(w3) THEN safeRaf(w3, t1) ELSE w3
        ELSE safeRaf(w, t)

---------------------------------------------------------------------------
(* update *)

(* A variant of sameValue: the early return is never taken. *)
sameValueNever(diff) == FALSE

(* if (!diff) *)
sameValue(diff) == diff = 0

(* A variant of commitValue: the assignment is left out. *)
commitValueSkipped(w, newValue) == w

(* this.value = newValue *)
commitValue(w, newValue) == [w EXCEPT !.value = newValue]

(* return this.value *)
returnValue(w) == [w EXCEPT !.ret = w.value]

(* removeClass(...), then addClass(up or down) *)
markDirection(w, diff) ==
    [w EXCEPT !.classes = (@ \ AnimClasses) \cup
                  {IF diff > 0 THEN "odometer-animating-up"
                               ELSE "odometer-animating-down"}]

(* The end of update, animate having returned: the deferred class toggle   *)
(* is queued, the value is assigned and returned.                          *)
finishUpdate(w, newValue) ==
    IF Ok(w)
    THEN returnValue(commitValue(
             setTimeout0(w, [kind |-> "class", gen |-> 0, plan |-> 0]), newValue))
    ELSE w

(* A variant of headless: the browser path is taken everywhere. *)
headlessNever(w) == FALSE

(* if (!isBrowser()) *)
headless(w) == ~w.browser

(* update(newValue).  listener is what the page's odometerstart listener   *)
(* does while the notification is dispatched; an                           *)
(* error raised in a listener does not reach the code that dispatches.     *)
RECURSIVE update(_, _, _)
update(w, raw, listener) ==
    LET newValue == cleanValue(w, raw)
        diff == newValue - w.value
        w1 == [markDirection(w, diff) EXCEPT !.isAnimating = TRUE]
        w2 == trigger(w1, startDetail(w1, newValue))
        w3 == IF listener = <<>> THEN w2
              ELSE [update(w2, listener[1], <<>>) EXCEPT !.thrown = ""]
    IN  IF headless(w) THEN returnValue(commitValue(w, newValue))
        ELSE IF sameValue(diff) THEN returnValue(w)
        ELSE finishUpdate(animate(w3, newValue), newValue)

---------------------------------------------------------------------------
(* setOptions and the constructor *)

(* A variant of configure: the el key of the new options is merged too. *)
configureWithSurface(w, newOptions) ==
    LET w1 == recomputeTiming([w EXCEPT !.options = Merge(@, newOptions)])
    IN  IF Has(newOptions, "format") \/ Has(newOptions, "formatFunction")
        THEN resetFormat(w1) ELSE w1

(* setOptions up to the format: the el key is deleted from the new         *)
(* options, the rest is merged, the derived timing is computed again, and  *)
(* the format is parsed again when a format key is given.                  *)
configure(w, newOptions) ==
    LET w1 == recomputeTiming([w EXCEPT !.options =
                                   Merge(@, Delete(newOptions, "el"))])
    IN  IF Has(newOptions, "format") \/ Has(newOptions, "formatFunction")
        THEN resetFormat(w1) ELSE w1

(* A variant of setOptions: the re-render is done whatever the keys. *)
setOptionsAlwaysRenders(w, newOptions, listener) ==
    IF Ok(configure(w, newOptions)) THEN render(configure(w, newOptions))
    ELSE configure(w, newOptions)

setOptions(w, newOptions, listener) ==
    LET hasValueChange == Has(newOptions, "value")
        hadFormatChange == \/ Has(newOptions, "format")
                           \/ Has(newOptions, "formatFunction")
        hadTimingChange == \/ Has(newOptions, "duration")
                           \/ Has(newOptions, "framerate")
                           \/ Has(newOptions, "countFramerate")
        w1 == configure(w, newOptions)
    IN  IF ~Ok(w1) THEN w1
        ELSE IF hasValueChange
        THEN update(w1, Get(w1.options, "value", 0), listener)
        ELSE IF hadFormatChange \/ hadTimingChange
        THEN render(w1)
        ELSE w1

(* new LightOdometer(options) when this.el.odometer exists: that instance  *)
(* is configured again and returned.                                       *)
reconstruct(w, newOptions, listener) ==
    LET w1 == resetFormat(recomputeTiming(
                  [w EXCEPT !.options = Merge(@, newOptions)]))
    IN  IF ~Ok(w1) THEN w1
        ELSE IF Get(newOptions, "value", Undefined) # Undefined
        THEN update(w1, newOptions.value, listener)
        ELSE render(w1)

(* LightOdometer.options as the class is loaded: window.odometerOptions    *)
(* is not set.                                                             *)
staticOptions == [k \in {} |-> 0]

(* A variant of setGlobalOptions: the instance of the surface reads the    *)
(* defaults live.                                                          *)
setGlobalOptionsLive(w, newOptions) ==
    [w EXCEPT !.globals = Merge(@, newOptions),
              !.options = IF w.bound THEN Merge(@, newOptions) ELSE @]

(* LightOdometer.setGlobalOptions(newOptions) *)
setGlobalOptions(w, newOptions) == [w EXCEPT !.globals = Merge(@, newOptions)]

(* new LightOdometer(options) on a surface without an instance: the new    *)
(* object is bound to the surface first.                                   *)
constructFresh(w, newOptions) ==
    LET w1 == resetFormat(recomputeTiming(
                  [w EXCEPT !.bound = TRUE, !.el = newOptions.el,
                            !.options = Merge(w.globals, newOptions)]))
        w2 == [w1 EXCEPT !.value = cleanValue(w1, Get(w1.options, "value", 0))]
    IN  IF ~Ok(w1) THEN w1 ELSE render(renderInside(w2))

(* A variant of construct: a new instance is bound whatever the surface    *)
(* holds.                                                                  *)
constructAlwaysFresh(w, newOptions, listener) == constructFresh(w, newOptions)

construct(w, newOptions, listener) ==
    IF w.bound
    THEN reconstruct(w, newOptions, listener)
    ELSE constructFresh(w, newOptions)

---------------------------------------------------------------------------
(* animateOnceAndDisconnect *)

(* The grace period added to the duration for the fallback timer. *)
GRACE == 100

(* addEventListener("odometerdone", once, { once: true }) *)
addOnceListener(w) == IF Ok(w) THEN [w EXCEPT !.onceArmed = TRUE] ELSE w

(* setTimeout(finish, (this.options.duration ?? DURATION) + 100) *)
setFallback(w) ==
    IF Ok(w)
    THEN [w EXCEPT !.fallbacks = Append(@, w.clock
                       + Get(w.options, "duration", DURATION) + GRACE)]
    ELSE w

(* A variant of animateOnceAndDisconnect: no fallback timer is set. *)
animateOnceNoFallback(w, toValue) ==
    addOnceListener(update(w, toValue, <<>>))

animateOnceAndDisconnect(w, toValue) ==
    setFallback(addOnceListener(update(w, toValue, <<>>)))

(* The fallback timer fires: finish() *)
finish(w) == disconnect(w)

---------------------------------------------------------------------------
(* The state machine *)

(* The option records setOptions is called with. *)
PartialOptions ==
    {[animation |-> a] : a \in Animations}
        \cup {[duration |-> d] : d \in Durations}
        \cup {[format |-> f] : f \in Formats}
        \cup {[value |-> r] : r \in OptionValues}

(* The surface of the model. *)
Surface == 1

(* The option records a second construction on the surface is called with. *)
ConstructOptions ==
    {[el |-> Surface, format |-> "d.d"], [el |-> Surface, value |-> Unit \div 2]}

NoPlan ==
    [id |-> 0, mode |-> "none", old |-> 0, new |-> 0, precision |-> 0,
     columns |-> <<>>]

Step(op, arg, listener) == [op |-> op, arg |-> arg, listener |-> listener]

(* The fields of an object the constructor has not run on, on a surface    *)
(* that has no instance, with nothing scheduled.                           *)
Pristine ==
    [browser |-> TRUE, globals |-> staticOptions, bound |-> FALSE, el |-> 0, value |-> 0, isAnimating |-> FALSE,
     destroyed |-> FALSE, transitionEndBound |-> FALSE,
     renderEnqueued |-> FALSE, bindGen |-> 0,
     options |-> [k \in {} |-> 0],
     format |-> [repeating |-> <<>>, radix |-> "", precision |-> 0],
     MAX_VALUES |-> 0, countRafId |-> 0, plan |-> NoPlan, nextPlan |-> 1,
     rafQueue |-> <<>>, runQueue |-> <<>>, timers |-> <<>>,
     onceArmed |-> FALSE, fallbacks |-> <<>>,
     hasInside |-> FALSE, inside |-> <<>>,
     display |-> [kind |-> "none", old |-> 0, value |-> 0],
     classes |-> {}, emitted |-> <<>>, thrown |-> "", ret |-> -1,
     started |-> 0, done |-> 0, clock |-> 0]

(* The state is w and no call has been counted. *)
InitFrom(w) ==
    /\ browser = w.browser
    /\ globals = w.globals
    /\ bound = w.bound
    /\ el = w.el
    /\ value = w.value
    /\ isAnimating = w.isAnimating
    /\ destroyed = w.destroyed
    /\ transitionEndBound = w.transitionEndBound
    /\ renderEnqueued = w.renderEnqueued
    /\ bindGen = w.bindGen
    /\ options = w.options
    /\ format = w.format
    /\ MAX_VALUES = w.MAX_VALUES
    /\ countRafId = w.countRafId
    /\ plan = w.plan
    /\ nextPlan = w.nextPlan
    /\ rafQueue = w.rafQueue
    /\ runQueue = w.runQueue
    /\ timers = w.timers
    /\ onceArmed = w.onceArmed
    /\ fallbacks = w.fallbacks
    /\ hasInside = w.hasInside
    /\ inside = w.inside
    /\ display = w.display
    /\ classes = w.classes
    /\ emitted = w.emitted
    /\ thrown = w.thrown
    /\ ret = w.ret
    /\ started = w.started
    /\ done = w.done
    /\ clock = w.clock
    /\ frames = 0
    /\ calls = 0
    /\ last = Step("new", 0, <<>>)
    /\ lastRequested = w.value
    /\ onlyUpdates = TRUE
    /\ reentered = FALSE
    /\ callsAfterDestroy = FALSE

(* new LightOdometer({ el, animation, duration: 1000, format: "d" }) in a  *)
(* browser: the value is cleanValue("") and the static projection is       *)
(* rendered.                                                               *)
Init ==
    \E a \in Animations :
        InitFrom(constructFresh(Pristine,
            [el |-> Surface, animation |-> a, duration |-> 1000, format |-> "d"]))

(* The page may call the API between callbacks, never inside a frame. *)
CanCall == calls < MaxCalls /\ runQueue = <<>>

(* A method can be called on the instance the surface holds. *)
CanCallMethod == CanCall /\ bound

Update(raw, listener) ==
    /\ CanCallMethod
    /\ Commit(update(Entry, raw, listener))
    /\ last' = Step("update", raw, listener)
    /\ calls' = calls + 1
    /\ lastRequested' = cleanValue(Entry, raw)
    /\ callsAfterDestroy' = (callsAfterDestroy \/ destroyed)
    /\ reentered' = (reentered \/ listener # <<>>)
    /\ UNCHANGED <<frames, onlyUpdates>>

SetOptions(newOptions, listener) ==
    /\ CanCallMethod
    /\ Has(newOptions, "value") \/ listener = <<>>
    /\ Commit(setOptions(Entry, newOptions, listener))
    /\ last' = Step("setOptions", newOptions, listener)
    /\ calls' = calls + 1
    /\ lastRequested' = IF Has(newOptions, "value")
                        THEN cleanValue(configure(Entry, newOptions), newOptions.value)
                        ELSE lastRequested
    /\ callsAfterDestroy' = (callsAfterDestroy \/ destroyed)
    /\ onlyUpdates' = FALSE
    /\ UNCHANGED <<frames, reentered>>

Construct(newOptions, listener) ==
    /\ CanCall
    /\ Has(newOptions, "value") \/ listener = <<>>
    /\ Commit(construct(Entry, newOptions, listener))
    /\ last' = Step("construct", newOptions, listener)
    /\ calls' = calls + 1
    /\ lastRequested' = IF Has(newOptions, "value")
                        THEN cleanValue(configure(Entry, newOptions), newOptions.value)
                        ELSE lastRequested
    /\ callsAfterDestroy' = (callsAfterDestroy \/ destroyed)
    /\ onlyUpdates' = FALSE
    /\ UNCHANGED <<frames, reentered>>

Destroy ==
    /\ CanCallMethod
    /\ Commit(disconnect(Entry))
    /\ last' = Step("destroy", 0, <<>>)
    /\ calls' = calls + 1
    /\ callsAfterDestroy' = (callsAfterDestroy \/ destroyed)
    /\ onlyUpdates' = FALSE
    /\ UNCHANGED <<frames, lastRequested, reentered>>

(* A frame begins: time has passed, and the callbacks requested so far are *)
(* the ones this frame calls, in the order they were requested.            *)
Frame(dt) ==
    /\ frames < MaxFrames
    /\ runQueue = <<>>
    /\ rafQueue # <<>>
    /\ Commit([Entry EXCEPT !.clock = @ + dt, !.runQueue = rafQueue,
                            !.rafQueue = <<>>])
    /\ last' = Step("frame", dt, <<>>)
    /\ frames' = frames + 1
    /\ UNCHANGED <<calls, lastRequested, onlyUpdates, reentered, callsAfterDestroy>>

(* The next frame callback of the running frame is called. *)
Tick ==
    /\ runQueue # <<>>
    /\ \E w \in {tickCall([Entry EXCEPT !.runQueue = Tail(@)], Head(runQueue))} :
           Commit(w)
    /\ last' = Step("tick", Head(runQueue).id, <<>>)
    /\ UNCHANGED <<frames, calls, lastRequested, onlyUpdates, reentered,
                   callsAfterDestroy>>

(* The oldest zero-delay timer fires. *)
Timer ==
    /\ runQueue = <<>>
    /\ timers # <<>>
    /\ LET t == Head(timers)
           w == [Entry EXCEPT !.timers = Tail(@)]
       IN  /\ Commit(IF t.kind = "render" THEN deferredRender(w, t.gen)
                                          ELSE deferredClass(w))
           /\ last' = Step(t.kind, t.plan, <<>>)
    /\ UNCHANGED <<frames, calls, lastRequested, onlyUpdates, reentered,
                   callsAfterDestroy>>

(* A column of the displayed slide plan ends its transition and the event  *)
(* reaches the listener on the element.                                    *)
TransitionEnd ==
    /\ runQueue = <<>>
    /\ transitionEndBound
    /\ display.kind = "slide"
    /\ Commit(onTransitionEnd(Entry))
    /\ last' = Step("transitionend", 0, <<>>)
    /\ UNCHANGED <<frames, calls, lastRequested, onlyUpdates, reentered,
                   callsAfterDestroy>>

AnimateOnce(raw) ==
    /\ CanCallMethod
    /\ Commit(animateOnceAndDisconnect(Entry, raw))
    /\ last' = Step("animateOnce", raw, <<>>)
    /\ calls' = calls + 1
    /\ lastRequested' = cleanValue(Entry, raw)
    /\ callsAfterDestroy' = (callsAfterDestroy \/ destroyed)
    /\ onlyUpdates' = FALSE
    /\ UNCHANGED <<frames, reentered>>

(* The fallback timer that is due first fires, no earlier than it is due. *)
Fallback ==
    /\ runQueue = <<>>
    /\ fallbacks # <<>>
    /\ LET due == CHOOSE d \in {fallbacks[i] : i \in DOMAIN fallbacks} :
                      \A i \in DOMAIN fallbacks : d <= fallbacks[i]
           at == CHOOSE i \in DOMAIN fallbacks : fallbacks[i] = due
           w == [Entry EXCEPT !.fallbacks = SubSeq(@, 1, at - 1)
                                               \o SubSeq(@, at + 1, Len(@)),
                              !.clock = IF @ < due THEN due ELSE @]
       IN  /\ \E w1 \in {finish(w)} : Commit(w1)
           /\ last' = Step("fallback", due, <<>>)
    /\ UNCHANGED <<frames, calls, lastRequested, onlyUpdates, reentered,
                   callsAfterDestroy>>

Next ==
    \/ \E raw \in RawValues, listener \in Listeners : Update(raw, listener)
    \/ \E o \in PartialOptions : SetOptions(o, <<>>)
    \/ \E o \in ConstructOptions : Construct(o, <<>>)
    \/ Destroy
    \/ \E dt \in FrameSteps : Frame(dt)
    \/ Tick
    \/ Timer
    \/ TransitionEnd

Spec == Init /\ [][Next]_vars

---------------------------------------------------------------------------
(* animateOnceAndDisconnect: an instance in either mode, animated once,    *)
(* with further updates, frames, timers and transition-end events.         *)

OnceValues == {0, Unit \div 2, Unit}

OnceNext ==
    \/ \E raw \in OnceValues : AnimateOnce(raw)
    \/ \E raw \in OnceValues : Update(raw, <<>>)
    \/ \E dt \in FrameSteps : Frame(dt)
    \/ Tick
    \/ Timer
    \/ TransitionEnd
    \/ Fallback

(* Timers that are due fire, and a frame that has begun calls its          *)
(* callbacks.                                                              *)
OnceSpec == Init /\ [][OnceNext]_vars /\ WF_vars(Fallback) /\ WF_vars(Tick)

---------------------------------------------------------------------------
(* Configuration: a surface without an instance, constructions with valid  *)
(* and invalid formats, setOptions with every kind of key.                 *)

(* A string FORMAT_PARSER does not match. *)
BadFormatString == "d)x"

(* A duration and a framerate whose quotient exceeds 32 bits. *)
LongDuration == 2000000000
HighFramerate == 3000

ConfigConstructOptions ==
    {[el |-> Surface],
     [el |-> Surface, format |-> "d.d"],
     [el |-> Surface, format |-> BadFormatString],
     [el |-> Surface, value |-> Unit \div 2, duration |-> 1000],
     [el |-> Surface, duration |-> LongDuration, framerate |-> HighFramerate]}

ConfigOptions ==
    {[format |-> "d"], [format |-> "d.d"], [format |-> BadFormatString],
     [duration |-> 1000], [duration |-> Undefined], [duration |-> LongDuration],
     [framerate |-> 20], [framerate |-> HighFramerate],
     [el |-> Surface + 1], [el |-> Surface + 1, duration |-> 3000],
     [value |-> Unit \div 2], [value |-> Unit, format |-> "d.d"]}

ConfigInit == InitFrom(Pristine)

ConfigNext ==
    \/ \E o \in ConfigConstructOptions : Construct(o, <<>>)
    \/ \E o \in ConfigOptions : SetOptions(o, <<>>)
    \/ \E raw \in OptionValues : Update(raw, <<>>)
    \/ Timer
    \/ TransitionEnd

ConfigSpec == ConfigInit /\ [][ConfigNext]_vars

---------------------------------------------------------------------------
(* Projection and slide plans: instances in slide mode with few or many    *)
(* values per column, with and without grouping and fractional digits,     *)
(* updated between small and large, positive and negative values.          *)

PlanDurations == {50, 2000}
PlanFormats == {"d", "d.dd", "(,ddd)", "(,ddd).dd", "(.ddd)", "(,)", "()"}
PlanValues == {0, 5, 29, 5 * Unit, 0 - 42 * Unit, 123450, 1234567 * Unit}

PlanInit ==
    \E d \in PlanDurations, f \in PlanFormats :
        InitFrom(constructFresh(Pristine,
            [el |-> Surface, animation |-> "slide", duration |-> d, format |-> f]))

PlanNext ==
    \/ \E raw \in PlanValues : Update(raw, <<>>)
    \/ Timer
    \/ TransitionEnd

PlanSpec == PlanInit /\ [][PlanNext]_vars

---------------------------------------------------------------------------
(* Vocabulary of the properties *)

(* Every field of the instance and of its surroundings, but for what the   *)
(* last step dispatched and returned.                                      *)
fields == <<bound, el, value, isAnimating, destroyed, transitionEndBound,
            renderEnqueued, bindGen, options, format, MAX_VALUES, countRafId,
            plan, nextPlan, rafQueue, runQueue, timers, onceArmed, fallbacks,
            hasInside, inside, display, classes, started, done, clock>>

ApiOps == {"update", "setOptions", "construct", "destroy"}
CallbackOps == {"tick", "render", "class"}

Range(q) == {q[i] : i \in DOMAIN q}

(* The plans that have a scheduled callback pending: a frame callback of a *)
(* count plan, or the deferred render queued by a transition-end event of  *)
(* a slide plan.                                                           *)
PendingPlans ==
    {t.id : t \in Range(rafQueue) \cup Range(runQueue)}
        \cup {t.plan : t \in {x \in Range(timers) : x.kind = "render"}}

(* The plan computed last is still in flight. *)
InFlight ==
    \/ plan.mode = "count" /\ plan.id \in {t.id : t \in Range(rafQueue)}
    \/ plan.mode = "slide" /\ display.kind = "slide" /\ isAnimating

(* Nothing is scheduled and no transition is running. *)
Quiescent ==
    /\ rafQueue = <<>>
    /\ runQueue = <<>>
    /\ timers = <<>>
    /\ ~(transitionEndBound /\ display.kind = "slide")

(* No listener has re-entered update. *)
NoReentry == ~reentered

Starts(q) == SelectSeq(q, LAMBDA e : e.name = "odometerstart")
Dones(q) == SelectSeq(q, LAMBDA e : e.name = "odometerdone")

---------------------------------------------------------------------------
(* C1: an update that supersedes a plan cancels it: every callback still   *)
(* pending (frame callback, deferred render) belongs to the plan computed  *)
(* last, so at most one plan has pending callbacks and no callback of a    *)
(* superseded plan is left to run.                                         *)
C1_SupersededPlanCancelled == NoReentry => PendingPlans \subseteq {plan.id}

(* C2: no scheduled callback changes currentValue; it changes only inside  *)
(* an update call.                                                         *)
C2_ValueChangesOnlyInUpdate ==
    [][(NoReentry /\ last'.op \in CallbackOps \cup {"frame", "transitionend"})
          => value' = value]_vars

(* C3: when update(v) returns, currentValue is normalize(v) and the number *)
(* returned is currentValue, whether or not an animation was in flight.    *)
C3_UpdateSetsValue ==
    [][last'.op = "update" =>
          /\ value' = cleanValue(World, last'.arg)
          /\ ret' = value']_vars

(* C3 witness: update has returned with an earlier plan and its own still  *)
(* pending, no callback of either having run since.                        *)
C3_Witness ==
    /\ last.op = "update"
    /\ Len(rafQueue) >= 2
    /\ value = cleanValue(World, last.arg)
    /\ ret = value
    /\ value # 0

(* C4: once destroyed, always destroyed, and no API call changes a field   *)
(* of the instance or emits a notification.                                *)
C4_DestroyedIsTerminal ==
    [][destroyed =>
          /\ destroyed'
          /\ last'.op \in ApiOps =>
                /\ UNCHANGED <<value, options, format, isAnimating,
                               transitionEndBound>>
                /\ emitted' = <<>>]_vars

(* C5: after destroy, with no API call made since, no callback scheduled   *)
(* before it renders, changes isAnimating or currentValue, or emits; this  *)
(* is stated of the runs in which no superseded plan was left pending.     *)
C5_DestroyCancelsCallbacks ==
    [][(/\ destroyed
        /\ ~callsAfterDestroy'
        /\ PendingPlans \subseteq {plan.id}
        /\ last'.op \in CallbackOps) =>
          /\ UNCHANGED <<display, isAnimating, value>>
          /\ emitted' = <<>>]_vars

(* C6: after update calls only, once every scheduled callback has run and  *)
(* the transition has ended, the instance is Idle, every start has been    *)
(* followed by a done, and the value requested last is displayed.          *)
C6_SettlesOnLastRequested ==
    (onlyUpdates /\ NoReentry /\ Quiescent) =>
        /\ ~isAnimating
        /\ started > 0 => done > 0
        /\ display = [kind |-> "static", old |-> lastRequested,
                      value |-> lastRequested]

(* C7: update(x) with normalize(x) equal to currentValue changes nothing:  *)
(* no notification, no field changed, no plan touched, nothing scheduled.  *)
C7_SameValueIsNoOp ==
    [][(last'.op = "update" /\ cleanValue(World, last'.arg) = value) =>
          /\ UNCHANGED fields
          /\ emitted' = <<>>]_vars

(* C7 witness: the second of two update(x) calls, made while the plan of   *)
(* the first is in flight, has returned without a notification.            *)
C7_Witness ==
    /\ last.op = "update"
    /\ emitted = <<>>
    /\ value = cleanValue(World, last.arg)
    /\ isAnimating
    /\ InFlight
    /\ calls = 2

C9_NewPlanStartsAtOldTarget ==
    [][(last'.op = "update" /\ NoReentry' /\ InFlight /\ nextPlan' > nextPlan) =>
          /\ plan'.old = plan.new
          /\ plan'.new = cleanValue(World, last'.arg)]_vars

(* C10: destroy on a destroyed instance changes no field. *)
C10_DestroyIdempotent ==
    [][(last'.op = "destroy" /\ destroyed) =>
          /\ UNCHANGED fields
          /\ emitted' = <<>>]_vars

(* C10 witness: a second destroy has returned while callbacks scheduled    *)
(* since the first are pending.                                            *)
C10_Witness ==
    /\ last.op = "destroy"
    /\ callsAfterDestroy
    /\ destroyed
    /\ rafQueue # <<>> \/ transitionEndBound

---------------------------------------------------------------------------
(* Every field but the fallback timers and the clock. *)
fieldsButFallbacks ==
    <<bound, el, value, isAnimating, destroyed, transitionEndBound,
      renderEnqueued, bindGen, options, format, MAX_VALUES, countRafId, plan,
      nextPlan, rafQueue, runQueue, timers, onceArmed, hasInside, inside,
      display, classes, started, done>>

(* C11: animateOnceAndDisconnect(v) does what update(v) does, attaches the *)
(* one-shot done listener and sets a timer of duration plus the grace      *)
(* period, without destroying the instance; the instance becomes destroyed *)
(* only by the next done notification or by that timer, and by either; the *)
(* event that comes second changes nothing; and the instance is eventually *)
(* destroyed once the call was made, whether or not a done is dispatched.  *)
C11_DestroysOnceAtFirstEvent ==
    /\ [][last'.op = "animateOnce" =>
             /\ \E w \in {update(Entry, last'.arg, <<>>)} :
                    /\ value' = w.value
                    /\ emitted' = w.emitted
                    /\ plan' = w.plan
                    /\ timers' = w.timers
             /\ destroyed' = destroyed
             /\ onceArmed'
             /\ fallbacks' = Append(fallbacks, clock + options.duration + GRACE)]_vars
    /\ [][(~destroyed /\ destroyed') =>
             \/ last'.op = "fallback"
             \/ onceArmed /\ Dones(emitted') # <<>>]_vars
    /\ [][(onceArmed /\ Dones(emitted') # <<>>) =>
             /\ destroyed'
             /\ ~onceArmed'
             /\ destroyed => UNCHANGED <<transitionEndBound, rafQueue>>]_vars
    /\ [][last'.op = "fallback" =>
             /\ destroyed'
             /\ clock' >= last'.arg
             /\ destroyed => UNCHANGED fieldsButFallbacks]_vars
    /\ (fallbacks # <<>> ~> destroyed)

(* C11 witness: after one animateOnceAndDisconnect call the done           *)
(* notification destroyed the instance, and the timer has fired since.     *)
C11_Witness ==
    /\ last.op = "fallback"
    /\ calls = 1
    /\ destroyed
    /\ done > 0
    /\ ~onceArmed
    /\ fallbacks = <<>>

---------------------------------------------------------------------------
(* C12: in every reachable state of an instance, after any construct,      *)
(* update and setOptions calls, currentValue is rounded to the precision   *)
(* of the active format, ties rounded up.                                  *)
C12_ValueRoundedToPrecision ==
    bound => value = round(value, format.precision)

---------------------------------------------------------------------------
(* The call that has just returned was given a format string that fails    *)
(* the format grammar.                                                     *)
GivenInvalidFormat(step) ==
    /\ step.op \in {"construct", "setOptions"}
    /\ Has(step.arg, "format")
    /\ ~parseFormat(step.arg.format).ok

(* C13: a constructor call (on a surface with or without an instance) or a *)
(* setOptions call whose format string fails the grammar raises            *)
(* InvalidFormat and commits nothing: options, format, derived timing and  *)
(* the binding of the surface to an instance are what they were.           *)
C13_InvalidFormatCommitsNothing ==
    [][GivenInvalidFormat(last') =>
          /\ thrown' = "InvalidFormat"
          /\ UNCHANGED <<options, format, MAX_VALUES, bound, el>>]_vars

---------------------------------------------------------------------------
(* After the step, key k of the options has the value the call gave. *)
KeyGiven(k) == Has(options', k) /\ options'[k] = last'.arg[k]

(* After the step, key k of the options is what it was before. *)
KeyKept(k) == Has(options', k) = Has(options, k)
                 /\ (Has(options, k) => options'[k] = options[k])

(* The call gave key k as undefined. *)
GivenUndefined(k) == Has(last'.arg, k) /\ last'.arg[k] = Undefined

(* C14, as stated: setOptions(partial) merges key by key: every key of     *)
(* partial but the surface reference has the value given, every other key  *)
(* keeps its value, and the bound surface is unchanged.                    *)
C14_MergesKeyByKey ==
    [][last'.op = "setOptions" =>
          /\ \A k \in DOMAIN last'.arg \ {"el"} : KeyGiven(k)
          /\ \A k \in (DOMAIN options \cup {"el"}) \ (DOMAIN last'.arg \ {"el"}) :
                KeyKept(k)
          /\ DOMAIN options' = DOMAIN options \cup (DOMAIN last'.arg \ {"el"})
          /\ el' = el]_vars

(* C14, amended: the same, except that a duration given as undefined (or   *)
(* null) is replaced by the default duration.                              *)
C14_MergesButDefaultsDuration ==
    [][last'.op = "setOptions" =>
          /\ \A k \in DOMAIN last'.arg \ {"el"} :
                IF k = "duration" /\ GivenUndefined(k)
                THEN options'[k] = DURATION
                ELSE KeyGiven(k)
          /\ \A k \in (DOMAIN options \cup {"el"}) \ (DOMAIN last'.arg \ {"el"}) :
                KeyKept(k)
          /\ DOMAIN options' = DOMAIN options \cup (DOMAIN last'.arg \ {"el"})
          /\ el' = el]_vars

(* C14 witness: setOptions was called with another surface and a duration: *)
(* the duration is the new one, the surface the old one.                   *)
C14_Witness ==
    /\ last.op = "setOptions"
    /\ Has(last.arg, "el")
    /\ Has(last.arg, "duration")
    /\ last.arg.el # el
    /\ options.el = el
    /\ options.duration = last.arg.duration

---------------------------------------------------------------------------
FormatKeys == {"format", "formatFunction"}
TimingKeys == {"duration", "framerate", "countFramerate"}

---------------------------------------------------------------------------
(* floor(duration / msPerFrame / FRAMES_PER_VALUE) with msPerFrame =       *)
(* 1000 / framerate, as two 16-bit limbs, for the options in force.        *)
TimingFloor ==
    timingQuotient(options.duration, Get(options, "framerate", FRAMERATE))

(* C16: after a construction and after every setOptions call, MAX_VALUES   *)
(* is floor(duration / msPerFrame / FRAMES_PER_VALUE) for the current      *)
(* duration and framerate, whatever their magnitude.                       *)
C16_MaxValuesIsFloor ==
    (bound /\ last.op \in {"construct", "setOptions"}) =>
        /\ TimingFloor.hi = MAX_VALUES \div Limb
        /\ TimingFloor.lo = MAX_VALUES % Limb

---------------------------------------------------------------------------
(* The surface shows a slide plan computed by the update that returned     *)
(* last.                                                                   *)
SlidePlanned ==
    /\ last.op = "update"
    /\ plan.mode = "slide"
    /\ plan.new = value
    /\ emitted # <<>>

(* C17: in every slide plan, every column has at most MAX_VALUES + 1       *)
(* frames, columns subsampled after earlier subsampled columns included.   *)
C17_ColumnFramesBounded ==
    SlidePlanned =>
        \A i \in DOMAIN plan.columns : Len(plan.columns[i]) <= MAX_VALUES + 1

---------------------------------------------------------------------------
(* The decimal digits of the natural number n, most significant first, in  *)
(* count columns.                                                          *)
DigitsOf(n, count) ==
    [i \in 1..count |-> (n \div Pow10(count - i)) % 10]

(* round(v, precision) as a whole number of units of the last digit *)
Scaled(v, precision) == Abs(v) \div (Unit \div Pow10(precision))

FirstFrames == [i \in DOMAIN plan.columns |-> plan.columns[i][1]]
LastFrames ==
    [i \in DOMAIN plan.columns |-> plan.columns[i][Len(plan.columns[i])]]

(* C18: in every slide plan from old to new, the columns read from most to *)
(* least significant, the last frames spell the digits of round(new,       *)
(* precision) and the first frames those of round(old, precision),         *)
(* upwards and downwards.                                                  *)
C18_FramesSpellOldAndNew ==
    SlidePlanned =>
        /\ LastFrames = DigitsOf(Scaled(plan.new, plan.precision),
                                 Len(plan.columns))
        /\ FirstFrames = DigitsOf(Scaled(plan.old, plan.precision),
                                  Len(plan.columns))

---------------------------------------------------------------------------
(* What the surface reads, left to right. *)
Shown == [i \in DOMAIN inside |-> inside[i].chr]

(* The surface shows the static projection of currentValue. *)
StaticShown == display = [kind |-> "static", old |-> value, value |-> value]

(* The digits ds with sep before every group of three counted from the     *)
(* right, from digit i on.                                                 *)
RECURSIVE GroupFrom(_, _, _)
GroupFrom(ds, i, sep) ==
    IF i > Len(ds)
    THEN <<>>
    ELSE (IF i > 1 /\ (Len(ds) - i + 1) % 3 = 0 THEN <<sep>> ELSE <<>>)
             \o <<ds[i]>> \o GroupFrom(ds, i + 1, sep)

(* The projection of v at the given precision: sign, integer digits in     *)
(* groups of three, and after the radix exactly precision digits.          *)
Grouped(v, precision, sep, radix) ==
    LET fraction == DigitsOf((Abs(v) % Unit) \div (Unit \div Pow10(precision)),
                             precision)
    IN  (IF v < 0 THEN <<"-">> ELSE <<>>)
            \o GroupFrom(natString(Abs(v) \div Unit), 1, sep)
            \o (IF precision = 0 THEN <<>>
                ELSE <<radix>> \o [i \in 1..precision |-> DigitChars[fraction[i] + 1]])

GroupingFormats == {"(,ddd)", "(,ddd).dd"}

(* C19: the static projection under a grouping format has the separator    *)
(* between every group of three integer digits counted leftwards from the  *)
(* radix, none before the leading digit or the sign, none among the        *)
(* fractional digits, and the radix between integer and fractional digits: *)
(* 1234567 reads "1,234,567" and 1234.5 reads "1,234.50".                  *)
C19_GroupsOfThree ==
    (StaticShown /\ options.format \in GroupingFormats) =>
        /\ Shown = Grouped(value, parseFormat(options.format).precision, ",", ".")
        /\ (value = 1234567 * Unit /\ options.format = "(,ddd)") =>
               Shown = <<"1", ",", "2", "3", "4", ",", "5", "6", "7">>
        /\ (value = 123450 /\ options.format = "(,ddd).dd") =>
               Shown = <<"1", ",", "2", "3", "4", ".", "5", "0">>

(* C19 witness: 1234.5 is shown under "(,ddd).dd" after a slide ended. *)
C19_Witness ==
    /\ StaticShown
    /\ done > 0
    /\ options.format = "(,ddd).dd"
    /\ value = 123450
    /\ Shown = <<"1", ",", "2", "3", "4", ".", "5", "0">>

---------------------------------------------------------------------------
(* The positions of the radix marks of the projection. *)
RadixAt == {i \in DOMAIN inside : inside[i].kind = "radix"}

(* C20: the static projection of a normalized value at precision p > 0 has *)
(* exactly p digits after the radix, trailing zeros included: 5 at         *)
(* precision 2 reads "5.00".                                               *)
C20_FractionPadded ==
    (StaticShown /\ parseFormat(options.format).precision > 0) =>
        /\ Cardinality(RadixAt) = 1
        /\ \A r \in RadixAt :
              /\ Len(inside) - r = parseFormat(options.format).precision
              /\ \A i \in (r + 1)..Len(inside) : inside[i].kind = "digit"
              /\ [i \in 1..(Len(inside) - r) |-> inside[r + i].chr]
                    = [i \in 1..(Len(inside) - r) |->
                          DigitChars[DigitsOf(Abs(value) % Unit, 2)[i] + 1]]
        /\ (value = 5 * Unit /\ options.format = "d.dd") =>
               Shown = <<"5", ".", "0", "0">>

(* C20 witness: 5 is shown at precision 2 after a slide ended. *)
C20_Witness ==
    /\ StaticShown
    /\ done > 0
    /\ options.format = "d.dd"
    /\ value = 5 * Unit
    /\ Shown = <<"5", ".", "0", "0">>

---------------------------------------------------------------------------
(* The text of the surface and its normalisation *)

(* The innerText getter of the element: the text of the tokens of          *)
(* this.inside, first child first.                                         *)
innerText(w) ==
    LET shown == SelectSeq(w.inside, LAMBDA t : t.chr # "")
    IN  [i \in DOMAIN shown |-> shown[i].chr]

(* val.replace(chr, by) with a string pattern: the first occurrence only *)
replaceFirst(str, chr, by) ==
    LET at == {i \in DOMAIN str : str[i] = chr}
    IN  IF at = {} THEN str
        ELSE [i \in DOMAIN str |->
                 IF i = CHOOSE j \in at : \A k \in at : j <= k THEN by ELSE str[i]]

(* /[.,\s  ]/: the characters cleanValue removes from a string *)
Removed == {".", ",", " "}

IsDigit(c) == \E i \in DOMAIN DigitChars : DigitChars[i] = c

DigitValue(c) == (CHOOSE i \in DOMAIN DigitChars : DigitChars[i] = c) - 1

(* The number of digit characters of str from position i on. *)
RECURSIVE digitRun(_, _)
digitRun(str, i) ==
    IF i <= Len(str) /\ IsDigit(str[i]) THEN 1 + digitRun(str, i + 1) ELSE 0

(* The natural number the first n characters of the digit string ds spell. *)
RECURSIVE natValue(_, _)
natValue(ds, n) ==
    IF n = 0 THEN 0 ELSE natValue(ds, n - 1) * 10 + DigitValue(ds[n])

(* The resolution parseFloat is modelled at: thousandths. *)
Milli == 10 * Unit

(* parseFloat(str) || 0 of a string without exponent: the longest prefix   *)
(* sign, digits, point, digits; 0 when it has no digit.  The result is the *)
(* floor of the number in thousandths, which decides every rounding at a   *)
(* precision of at most two.                                               *)
parseFloat(str) ==
    LET signed == str # <<>> /\ str[1] \in {"-", "+"}
        from == IF signed THEN 2 ELSE 1
        n == digitRun(str, from)
        pointed == from + n <= Len(str) /\ str[from + n] = "."
        m == IF pointed THEN digitRun(str, from + n + 1) ELSE 0
        fraction == SubSeq(str, from + n + 1, from + n + m) \o <<"0", "0", "0">>
        rest == {i \in 4..m : fraction[i] # "0"}
        magnitude == natValue(SubSeq(str, from, from + n - 1), n) * Milli
                         + natValue(fraction, 3)
    IN  IF n + m = 0 THEN 0
        ELSE IF signed /\ str[1] = "-"
        THEN 0 - magnitude - (IF rest = {} THEN 0 ELSE 1)
        ELSE magnitude

(* round(val, precision) of a number given in thousandths *)
roundMilli(val, precision) ==
    LET q == Milli \div Pow10(precision)
    IN  ((val + q \div 2) \div q) * (Unit \div Pow10(precision))

(* cleanValue of a string: the radix symbol is set aside, the characters   *)
(* of Removed are dropped, the radix becomes the decimal point and the     *)
(* result is parsed and rounded.                                           *)
cleanValueOfString(w, val) ==
    LET marked == replaceFirst(val, IF w.format.radix = "" THEN "." ELSE w.format.radix,
                               "<radix>")
        kept == SelectSeq(marked, LAMBDA c : c \notin Removed)
    IN  roundMilli(parseFloat(replaceFirst(kept, "<radix>", ".")),
                   w.format.precision)

---------------------------------------------------------------------------
(* C21: for every value v, precision p and accepted format of that         *)
(* precision, normalizing the text of the static projection of round(v, p) *)
(* gives round(v, p) again, negative and grouped values included.          *)
C21_TextRoundTrip ==
    (StaticShown /\ value = round(value, parseFormat(options.format).precision)) =>
        cleanValueOfString([World EXCEPT !.format = parseFormat(options.format)],
                           innerText(World)) = value

---------------------------------------------------------------------------
(* The positions of the negation marks and of the digits on the surface. *)
NegationAt == {i \in DOMAIN inside : inside[i].kind = "negation"}
DigitAt == {i \in DOMAIN inside : inside[i].kind = "digit"}

(* One negation mark, ahead of every digit. *)
OneNegationAhead ==
    /\ Cardinality(NegationAt) = 1
    /\ \A n \in NegationAt : \A d \in DigitAt : n < d

(* The characters of the digits on the surface, most significant first. *)
ShownDigits ==
    LET ds == SelectSeq(inside, LAMBDA t : t.kind = "digit")
    IN  [i \in DOMAIN ds |-> ds[i].chr]

(* C22: when the value shown is negative, in the static projection and in  *)
(* the slide plan of an update to a negative value, there is exactly one   *)
(* negation mark, ahead of the most significant digit, and the digits (the *)
(* last frames of the columns) spell the magnitude: -42 gives the mark,    *)
(* then 4, then 2.                                                         *)
C22_NegationMarkerOnce ==
    /\ (StaticShown /\ value < 0) =>
          /\ OneNegationAhead
          /\ ShownDigits = natString(Scaled(value, parseFormat(options.format).precision))
    /\ (SlidePlanned /\ plan.new < 0) =>
          /\ OneNegationAhead
          /\ LastFrames = DigitsOf(Scaled(plan.new, plan.precision),
                                   Len(plan.columns))
          /\ (plan.new = 0 - 42 * Unit /\ plan.precision = 0) =>
                 LastFrames[Len(LastFrames) - 1] = 4 /\ LastFrames[Len(LastFrames)] = 2

---------------------------------------------------------------------------
(* The grouping pattern of the format string f has no digit marker. *)
NoDigitMarker(f) ==
    \A i \in DOMAIN parseFormat(f).repeating : parseFormat(f).repeating[i] # "d"

(* The step that led here projected a value: the constructor and a        *)
(* deferred render build the static projection, an update to another      *)
(* value (it has dispatched odometerstart) a slide plan.                   *)
Projected ==
    \/ last.op \in {"new", "render"}
    \/ last.op = "update" /\ emitted # <<>>

(* The pattern was used up, parsed again and used up again: it is empty    *)
(* and the surface holds its marks twice (one empty mark when the pattern  *)
(* has no character at all) and no digit.                                  *)
ExhaustedTwice ==
    /\ format.repeating = <<>>
    /\ Shown = IF parseFormat(options.format).repeating = <<>>
               THEN <<"">>
               ELSE parseFormat(options.format).repeating
                        \o parseFormat(options.format).repeating
    /\ \A i \in DOMAIN inside : inside[i].kind = "mark"

---------------------------------------------------------------------------
(* Process-wide defaults: setGlobalOptions before and after the instance   *)
(* of the surface is constructed, constructions with and without keys the  *)
(* defaults hold, setOptions and updates.                                  *)

GlobalOptions ==
    {[duration |-> 1000], [format |-> "d.d"], [format |-> "d"],
     [framerate |-> 20]}

GlobalConstructOptions ==
    {[el |-> Surface], [el |-> Surface, duration |-> 3000],
     [el |-> Surface, format |-> "d", value |-> Unit]}

SetGlobalOptions(newOptions) ==
    /\ CanCall
    /\ Commit(setGlobalOptions(Entry, newOptions))
    /\ last' = Step("setGlobalOptions", newOptions, <<>>)
    /\ calls' = calls + 1
    /\ UNCHANGED <<frames, lastRequested, onlyUpdates, reentered,
                   callsAfterDestroy>>

GlobalNext ==
    \/ \E o \in GlobalOptions : SetGlobalOptions(o)
    \/ \E o \in GlobalConstructOptions : Construct(o, <<>>)
    \/ \E o \in GlobalOptions : SetOptions(o, <<>>)
    \/ \E raw \in OptionValues : Update(raw, <<>>)
    \/ Timer
    \/ TransitionEnd

GlobalSpec == ConfigInit /\ [][GlobalNext]_vars

(* C24: setGlobalOptions changes the defaults and nothing of an existing   *)
(* instance; the defaults enter the options of an instance when it is      *)
(* first constructed, each key the call does not give having the default   *)
(* of that moment, and in no other step.                                   *)
C24_DefaultsCopiedAtConstruction ==
    [][/\ last'.op = "setGlobalOptions" =>
              /\ globals' = Merge(globals, last'.arg)
              /\ UNCHANGED <<bound, el, options, format, MAX_VALUES, value,
                             isAnimating, display, inside>>
       /\ (last'.op = "construct" /\ ~bound) =>
              /\ \A k \in DOMAIN globals \ DOMAIN last'.arg :
                    Has(options', k) /\ options'[k] = globals[k]
              /\ \A k \in DOMAIN last'.arg : Has(options', k) /\ options'[k] = last'.arg[k]
       /\ (last'.op \in {"construct", "setOptions"} /\ bound) =>
              \A k \in (DOMAIN globals \cup DOMAIN options) \ DOMAIN last'.arg :
                  KeyKept(k)
       /\ last'.op \notin {"construct", "setOptions"} => options' = options
       /\ last'.op # "setGlobalOptions" => globals' = globals]_vars

(* C24 witness: the instance was constructed under the default format      *)
(* "d.d", and a later setGlobalOptions gave a default duration the         *)
(* instance does not have.                                                 *)
C24_Witness ==
    /\ last.op = "setGlobalOptions"
    /\ bound
    /\ Has(globals, "format") /\ globals.format = "d.d"
    /\ Has(options, "format") /\ options.format = "d.d"
    /\ Has(globals, "duration") /\ options.duration # globals.duration

---------------------------------------------------------------------------
(* The options o with the duration defaulted: duration ??= DURATION *)
DurationDefaulted(o) ==
    IF Get(o, "duration", Undefined) = Undefined
    THEN Merge(o, [duration |-> DURATION]) ELSE o

(* The step constructs on a surface that has an instance, with options     *)
(* whose format, merged over the previous ones, parses.                    *)
ConstructsAgain ==
    /\ last'.op = "construct"
    /\ bound
    /\ parseFormat(formatString([options |-> Merge(options, last'.arg)])).ok

(* C25: constructing on a surface that has an instance binds no second     *)
(* instance: the existing one stays bound to its surface, its options are  *)
(* the new ones merged over the previous ones, timing and format are       *)
(* derived again from them, and with a value the effect is that of         *)
(* update(value) on it, without one its value and animation state stay.    *)
C25_OneInstancePerSurface ==
    [][ConstructsAgain =>
          /\ bound' /\ el' = el /\ destroyed' = destroyed
          /\ bindGen' >= bindGen /\ nextPlan' >= nextPlan
          /\ options' = DurationDefaulted(Merge(options, last'.arg))
          /\ MAX_VALUES' = recomputeTiming([options |-> options', MAX_VALUES |-> 0]).MAX_VALUES
          /\ format'.precision = parseFormat(formatString([options |-> options'])).precision
          /\ format'.radix = parseFormat(formatString([options |-> options'])).radix
          /\ IF Get(last'.arg, "value", Undefined) # Undefined
             THEN \E w \in {update([Entry EXCEPT
                                       !.options = options',
                                       !.MAX_VALUES = MAX_VALUES',
                                       !.format = parseFormat(formatString([options |-> options']))],
                                   last'.arg.value, <<>>)} :
                     /\ value' = w.value
                     /\ ret' = w.ret
                     /\ emitted' = w.emitted
                     /\ thrown' = w.thrown
                     /\ isAnimating' = w.isAnimating
                     /\ plan' = w.plan
                     /\ display' = w.display
                     /\ inside' = w.inside
                     /\ timers' = w.timers
                     /\ rafQueue' = w.rafQueue
             ELSE /\ emitted' = <<>>
                  /\ UNCHANGED <<value, isAnimating, plan, nextPlan, rafQueue, timers>>]_vars

(* C25 witness: a second construction on the surface, with a value and a   *)
(* duration, has started an animation of the first instance, which keeps   *)
(* the format it was constructed with.                                     *)
C25_Witness ==
    /\ last.op = "construct"
    /\ calls = 2
    /\ Has(last.arg, "value") /\ ~Has(last.arg, "format")
    /\ Has(options, "format") /\ options.format = "d.d"
    /\ options.duration = last.arg.duration
    /\ value = last.arg.value
    /\ isAnimating
    /\ Len(emitted) = 1
    /\ emitted[1].name = "odometerstart"

---------------------------------------------------------------------------
(* A headless context: isBrowser() is false, and the instance is           *)
(* constructed, constructed again, reconfigured and updated.               *)

HeadlessConstructOptions ==
    {[el |-> Surface], [el |-> Surface, format |-> "d.d"],
     [el |-> Surface, format |-> "d.d", value |-> Unit \div 2],
     [el |-> Surface, value |-> Unit]}

HeadlessInit == InitFrom([Pristine EXCEPT !.browser = FALSE])

HeadlessNext ==
    \/ \E o \in HeadlessConstructOptions : Construct(o, <<>>)
    \/ \E o \in PartialOptions : SetOptions(o, <<>>)
    \/ \E raw \in RawValues : Update(raw, <<>>)

HeadlessSpec == HeadlessInit /\ [][HeadlessNext]_vars

(* No animation machinery: nothing is animating, dispatched, scheduled,    *)
(* planned or rendered.                                                    *)
NoMachinery ==
    /\ ~isAnimating
    /\ started = 0 /\ done = 0 /\ emitted = <<>>
    /\ rafQueue = <<>> /\ runQueue = <<>> /\ timers = <<>> /\ fallbacks = <<>>
    /\ ~transitionEndBound
    /\ plan = NoPlan
    /\ ~hasInside /\ inside = <<>> /\ classes = {} /\ display.kind = "none"

(* C26: in a headless context, whatever the sequence of construct, update  *)
(* and setOptions calls, a call that carries a value sets currentValue to  *)
(* that value normalized, a first construction without one sets it to 0,   *)
(* every other call leaves it, and no call animates, notifies, schedules   *)
(* or renders.                                                             *)
C26_HeadlessValueOnly ==
    [][/\ NoMachinery'
       /\ thrown' = ""
       /\ value' = IF last'.op = "update"
                   THEN round(last'.arg, format'.precision)
                   ELSE IF Has(last'.arg, "value")
                   THEN round(last'.arg.value, format'.precision)
                   ELSE IF bound THEN value ELSE 0
       /\ last'.op = "update" => ret' = value']_vars

(* C26 witness: headless, update(0.5) under "d.d" has set the value 0.5    *)
(* after an earlier call with another value.                               *)
C26_Witness ==
    /\ ~browser
    /\ last.op = "update"
    /\ last.arg = Unit \div 2
    /\ value = Unit \div 2
    /\ ret = value
    /\ lastRequested = value
    /\ calls = 3
    /\ NoMachinery

---------------------------------------------------------------------------
(* start and end of column i (1: most significant) of the plan, as the     *)
(* column loop computes them from the scaled old and new values.           *)
ColumnWeight(i) ==
    2 * (Unit \div Pow10(plan.precision)) * Pow10(Len(plan.columns) - i)

ColumnStart(i) == truncate(scaleUp(plan.old, plan.precision), ColumnWeight(i))
ColumnEnd(i) == truncate(scaleUp(plan.new, plan.precision), ColumnWeight(i))

(* The columns of the plan that are near: |end - start| <= MAX_VALUES. *)
NearColumns ==
    {i \in DOMAIN plan.columns : Abs(ColumnEnd(i) - ColumnStart(i)) <= MAX_VALUES}

(* C27: in a slide plan, a column with |end - start| <= MAX_VALUES has     *)
(* |end - start| + 1 frames, the last digits of the integers from start to *)
(* end inclusive, in order: every unit step is a frame.                    *)
C27_NearColumnsNotSubsampled ==
    SlidePlanned =>
        \A i \in NearColumns :
            /\ Len(plan.columns[i]) = Abs(ColumnEnd(i) - ColumnStart(i)) + 1
            /\ \A j \in DOMAIN plan.columns[i] :
                  plan.columns[i][j] =
                      Abs(IF ColumnStart(i) < ColumnEnd(i)
                          THEN ColumnStart(i) + (j - 1)
                          ELSE ColumnStart(i) - (j - 1)) % 10

(* C27 witness: the plan from 5 down to -42 with MAX_VALUES 29: the tens   *)
(* go from 0 to -4 through every integer, shown as 0, 1, 2, 3, 4; the      *)
(* units, 47 apart, are subsampled.                                        *)
C27_Witness ==
    /\ SlidePlanned
    /\ MAX_VALUES = 29
    /\ plan.old = 5 * Unit /\ plan.new = 0 - 42 * Unit /\ plan.precision = 0
    /\ NearColumns = {1}
    /\ plan.columns[1] = <<0, 1, 2, 3, 4>>

---------------------------------------------------------------------------
(* C28: a slide plan of precision p > 0 has exactly one radix mark, with   *)
(* exactly p digit columns to its right, whatever the old and new values   *)
(* (0 to 0.05 at precision 2 included); a plan of precision 0 has no radix *)
(* mark.                                                                   *)
C28_RadixBeforeFraction ==
    SlidePlanned =>
        IF plan.precision > 0
        THEN /\ Cardinality(RadixAt) = 1
             /\ \A r \in RadixAt :
                   Cardinality({d \in DigitAt : d > r}) = plan.precision
        ELSE RadixAt = {}

---------------------------------------------------------------------------
(* The plans that have a frame callback pending, each as often as it has. *)
PendingTicks(queue, id) == Cardinality({i \in DOMAIN queue : queue[i].id = id})

(* C29: a count plan whose tick keeps being called ends once: the first    *)
(* tick called with more than the duration elapsed renders the new value,  *)
(* sets isAnimating to false, dispatches one odometerdone and requests no  *)
(* further frame; every tick of the plan before it dispatches nothing and  *)
(* requests exactly one further frame.                                     *)
C29_CountPlanEndsOnce ==
    [][last'.op = "tick" =>
          IF clock' - Head(runQueue).start > options.duration
          THEN /\ value' = Head(runQueue).newValue
               /\ display' = [kind |-> "static", old |-> value', value |-> value']
               /\ ~isAnimating'
               /\ done' = done + 1
               /\ emitted' = <<[name |-> "odometerdone", value |-> value']>>
               /\ PendingTicks(rafQueue', last'.arg) = PendingTicks(rafQueue, last'.arg)
               /\ PendingTicks(runQueue', last'.arg) = PendingTicks(runQueue, last'.arg) - 1
          ELSE /\ done' = done
               /\ emitted' = <<>>
               /\ UNCHANGED <<value, isAnimating>>
               /\ PendingTicks(rafQueue', last'.arg) = PendingTicks(rafQueue, last'.arg) + 1
               /\ PendingTicks(runQueue', last'.arg) = PendingTicks(runQueue, last'.arg) - 1]_vars

(* C29 witness: after one update and nothing else, the count plan has     *)
(* ended in its second frame, after one tick that did not end it.          *)
C29_Witness ==
    /\ last.op = "tick"
    /\ plan.mode = "count" /\ last.arg = plan.id
    /\ calls = 1
    /\ frames = 2
    /\ clock - options.duration = 1000
    /\ done = 1 /\ ~isAnimating
    /\ value = plan.new
    /\ display = [kind |-> "static", old |-> value, value |-> value]
    /\ rafQueue = <<>> /\ runQueue = <<>>

---------------------------------------------------------------------------
(* The deferred renders that are pending. *)
PendingRenders == {i \in DOMAIN timers : timers[i].kind = "render"}

(* C30: in slide mode, the transition-end events that arrive before the    *)
(* deferred render has run queue one deferred render between them: at most *)
(* one is pending, an event that finds one pending queues nothing, changes *)
(* nothing and dispatches nothing, and the deferred render renders the     *)
(* value, sets isAnimating to false and dispatches one odometerdone.       *)
C30_OneRenderPerBatch ==
    [][/\ Cardinality(PendingRenders') <= 1
       /\ last'.op = "transitionend" =>
              /\ emitted' = <<>>
              /\ UNCHANGED <<isAnimating, done, display, inside, value>>
              /\ PendingRenders # {} => timers' = timers
       /\ last'.op = "render" =>
              /\ display' = [kind |-> "static", old |-> value, value |-> value]
              /\ ~isAnimating'
              /\ done' = done + 1
              /\ emitted' = <<[name |-> "odometerdone", value |-> value]>>
              /\ Cardinality(PendingRenders') = Cardinality(PendingRenders) - 1]_vars

----------------------------------------------------------------------------
(* C31: a done notification is dispatched only while isAnimating is true:  *)
(* every step that dispatches odometerdone starts from a state where       *)
(* isAnimating holds and a start is still unanswered, and the number of    *)
(* done notifications never exceeds the number of start notifications.     *)
C31_DoneOnlyWhileAnimating ==
    [][/\ done' <= started'
       /\ done' > done => (isAnimating /\ done < started)]_vars

(* C32: the instance is in exactly one of Idle, Animating and Destroyed:   *)
(* in every reachable state a destroyed instance is not animating,         *)
(* including right after destroy() was called with an animation in flight. *)
C32_DestroyedNotAnimating == destroyed => ~isAnimating

---------------------------------------------------------------------------
(* Options changed during an animation: an instance in either mode,        *)
(* updated and reconfigured without a value key, where every frame that    *)
(* has callbacks waiting begins, every callback and zero-delay timer is    *)
(* called, and every transition of a displayed column ends.                *)

(* The option records without a value key. *)
ValuelessOptions == {o \in PartialOptions : ~Has(o, "value")}

(* A frame begins, however many began before it. *)
BeginFrame(dt) ==
    /\ runQueue = <<>>
    /\ rafQueue # <<>>
    /\ \E w \in {[Entry EXCEPT !.clock = @ + dt, !.runQueue = rafQueue,
                               !.rafQueue = <<>>]} : Commit(w)
    /\ last' = Step("frame", dt, <<>>)
    /\ frames' = frames + 1
    /\ UNCHANGED <<calls, lastRequested, onlyUpdates, reentered, callsAfterDestroy>>

(* The oldest zero-delay timer fires. *)
RunTimer ==
    /\ runQueue = <<>>
    /\ timers # <<>>
    /\ \E w \in {IF Head(timers).kind = "render"
                 THEN deferredRender([Entry EXCEPT !.timers = Tail(@)],
                                     Head(timers).gen)
                 ELSE deferredClass([Entry EXCEPT !.timers = Tail(@)])} :
           Commit(w)
    /\ last' = Step(Head(timers).kind, Head(timers).plan, <<>>)
    /\ UNCHANGED <<frames, calls, lastRequested, onlyUpdates, reentered,
                   callsAfterDestroy>>

(* A column of the displayed slide plan ends its transition. *)
ColumnEnds ==
    /\ runQueue = <<>>
    /\ transitionEndBound
    /\ display.kind = "slide"
    /\ \E w \in {onTransitionEnd(Entry)} : Commit(w)
    /\ last' = Step("transitionend", 0, <<>>)
    /\ UNCHANGED <<frames, calls, lastRequested, onlyUpdates, reentered,
                   callsAfterDestroy>>

StrandNext ==
    \/ \E raw \in OptionValues : Update(raw, <<>>)
    \/ \E o \in ValuelessOptions : SetOptions(o, <<>>)
    \/ \E dt \in FrameSteps : BeginFrame(dt)
    \/ Tick
    \/ RunTimer
    \/ ColumnEnds

StrandSpec ==
    /\ Init
    /\ [][StrandNext]_vars
    /\ WF_vars(\E dt \in FrameSteps : BeginFrame(dt))
    /\ WF_vars(Tick)
    /\ WF_vars(RunTimer)
    /\ WF_vars(ColumnEnds)

(* setOptions without a value key has returned during an animation. *)
ReconfiguredInFlight ==
    /\ last.op = "setOptions"
    /\ ~Has(last.arg, "value")
    /\ isAnimating

(* C33: a setOptions call without a value key made while an animation is   *)
(* in flight does not strand it: the call leaves isAnimating true,         *)
(* isAnimating becomes false only in a step that dispatches odometerdone,  *)
(* and after the call an odometerdone is eventually dispatched.            *)
C33_ReconfigureDoesNotStrand ==
    /\ [][(isAnimating /\ last'.op = "setOptions" /\ ~Has(last'.arg, "value"))
             => isAnimating']_vars
    /\ [][(isAnimating /\ ~isAnimating') => Dones(emitted') # <<>>]_vars
    /\ ReconfiguredInFlight ~> (Dones(emitted) # <<>>)

---------------------------------------------------------------------------
(* The argument of the update call invoked most recently in the step that  *)
(* has just been taken: the listener's call when an odometerstart was      *)
(* dispatched to a listener that calls update, the page's call otherwise.  *)
MostRecentArgument ==
    IF last.listener # <<>> /\ Starts(emitted) # <<>>
    THEN last.listener[1]
    ELSE last.arg

(* C34: when an update call returns, also one whose odometerstart listener *)
(* called update while it was executing, currentValue is the normalized    *)
(* argument of the update call invoked most recently, and the plan left in *)
(* flight targets that value.                                              *)
C34_LastInvokedUpdateWins ==
    [][last'.op = "update" =>
          /\ value' = cleanValue(World, MostRecentArgument')
          /\ InFlight' => plan'.new = cleanValue(World, MostRecentArgument')]_vars

---------------------------------------------------------------------------
(* v lies between a and b, whichever is larger. *)
Between(a, v, b) == (a <= v /\ v <= b) \/ (b <= v /\ v <= a)

(* The value a count plan started from. *)
PlanOld(t) == t.newValue - t.diff

(* What the count plan of tick t rendered last: the value it started from  *)
(* before its first intermediate render.                                   *)
LastRendered(t) == IF t.last = t.start THEN PlanOld(t) ELSE MathRound(t.cur)

(* The frame callback called next renders an intermediate value. *)
RendersIntermediate ==
    /\ runQueue # <<>>
    /\ clock - Head(runQueue).start <= options.duration
    /\ clock - Head(runQueue).last > countMsPerFrame(World)

(* C35: in count mode every intermediate value a plan renders before its   *)
(* final snap lies between the plan's old and new value, both included,    *)
(* and is no farther from the new value than the one the plan rendered     *)
(* before it, at every precision.                                          *)
C35_CountStaysInRange ==
    [][(RendersIntermediate /\ last'.op = "tick" /\ thrown' = "") =>
          /\ Between(PlanOld(Head(runQueue)), display'.value,
                     Head(runQueue).newValue)
          /\ Abs(Head(runQueue).newValue - display'.value)
                <= Abs(Head(runQueue).newValue - LastRendered(Head(runQueue)))]_vars

=============================================================================
